---- MODULE Spec2Model ----
(***************************************************************************)
(* Model of the transaction router, src/src/middleware/router.js.         *)
(*                                                                         *)
(* One request through route(ctx, next) and, when the method is allowed,   *)
(* sendRequestToRoutes(ctx, routes, next) over a channel of MaxRoutes      *)
(* routes.  Every action is one turn of the JavaScript event               *)
(* loop: the callback that the runtime invokes together with the promise   *)
(* reactions (microtasks) it makes runnable, which run to completion       *)
(* before the next callback is taken.                                      *)
(*                                                                         *)
(* Strings that the code inspects character by character                   *)
(* (route.statusCodesCheck, `${status}`, the request path, a pathTransform *)
(* expression, the request method) are sequences of one-character strings. *)
(* Routes are of type http; the query string of the request is empty.      *)
(***************************************************************************)
EXTENDS Integers, Sequences, FiniteSets, TLC

\* Number of routes of the channel under dispatch.
MaxRoutes == 3

\* Number of characters behind the leading '/' of a request path.
MaxPathLen == 3

RouteIds == 1..MaxRoutes

\* JavaScript values that are not numbers or strings of the model.
Undefined == -2
NaN == -1
NoError == "undefined"
NoBody == "undefined"
NullStatus == "null"
NullTimeout == -3

\* The value of a call that throws instead of returning.
Throws == <<"TypeError">>

----------------------------------------------------------------------------
(* Strings *)

Digits == <<"0", "1", "2", "3", "4", "5", "6", "7", "8", "9">>

IsDigit(c) == \E i \in 1..10 : Digits[i] = c

DigitVal(c) == (CHOOSE i \in 1..10 : Digits[i] = c) - 1

\* String.prototype.split(sep) for a one-character separator.
RECURSIVE SplitFrom(_, _, _, _)
SplitFrom(s, sep, i, tok) ==
  IF i > Len(s) THEN <<tok>>
  ELSE IF s[i] = sep THEN <<tok>> \o SplitFrom(s, sep, i + 1, <<>>)
  ELSE SplitFrom(s, sep, i + 1, Append(tok, s[i]))

Split(s, sep) == SplitFrom(s, sep, 1, <<>>)

\* String.prototype.includes(c) for a one-character argument.
Includes(s, c) == \E i \in 1..Len(s) : s[i] = c

\* Number(code) for strings over digits, '*' and ',': the empty string is 0,
\* a string of decimal digits is its value, anything else is NaN.
RECURSIVE DecimalValue(_, _)
DecimalValue(s, acc) ==
  IF s = <<>> THEN acc ELSE DecimalValue(Tail(s), acc * 10 + DigitVal(Head(s)))

ToNumber(s) ==
  IF \A i \in 1..Len(s) : IsDigit(s[i]) THEN DecimalValue(s, 0) ELSE NaN

\* `${status}` for a non-negative integer or undefined.
RECURSIVE DecimalString(_)
DecimalString(n) ==
  IF n < 10 THEN <<Digits[n + 1]>>
  ELSE Append(DecimalString(n \div 10), Digits[(n % 10) + 1])

TemplateString(status) ==
  IF status = Undefined
    THEN <<"u", "n", "d", "e", "f", "i", "n", "e", "d">>
    ELSE DecimalString(status)

\* String.prototype.replace(/c/g, d) for one-character c and d.
ReplaceChar(s, c, d) == [i \in 1..Len(s) |-> IF s[i] = c THEN d ELSE s[i]]

\* expression.replace(/\\\//g, ':'): every backslash followed by a slash
\* becomes one ':'.
RECURSIVE HideEscapedSlashes(_)
HideEscapedSlashes(s) ==
  IF Len(s) < 2 THEN s
  ELSE IF s[1] = "\\" /\ s[2] = "/"
    THEN <<":">> \o HideEscapedSlashes(SubSeq(s, 3, Len(s)))
  ELSE <<s[1]>> \o HideEscapedSlashes(Tail(s))

MatchesAt(s, from, i) ==
  /\ i + Len(from) - 1 <= Len(s)
  /\ \A j \in 1..Len(from) : s[i + j - 1] = from[j]

\* s.replace(new RegExp(from), to), or with the 'g' flag when global, from
\* index i on, for a pattern and a replacement of literal characters.
RECURSIVE ReplaceFrom(_, _, _, _, _)
ReplaceFrom(s, from, to, global, i) ==
  IF i > Len(s) + 1 THEN <<>>
  ELSE IF MatchesAt(s, from, i)
    THEN IF from = <<>>
           THEN to \o (IF i > Len(s) THEN <<>>
                       ELSE <<s[i]>> \o
                            (IF global THEN ReplaceFrom(s, from, to, global, i + 1)
                             ELSE SubSeq(s, i + 1, Len(s))))
           ELSE to \o (IF global
                         THEN ReplaceFrom(s, from, to, global, i + Len(from))
                         ELSE SubSeq(s, i + Len(from), Len(s)))
  ELSE IF i > Len(s) THEN <<>>
  ELSE <<s[i]>> \o ReplaceFrom(s, from, to, global, i + 1)

\* String.prototype.toUpperCase() over the letters of the request methods.
LowerCase == <<"a", "c", "d", "e", "g", "h", "l", "o", "p", "s", "t", "u">>
UpperCase == <<"A", "C", "D", "E", "G", "H", "L", "O", "P", "S", "T", "U">>

ToUpperCase(s) ==
  [i \in 1..Len(s) |->
     IF \E k \in 1..Len(LowerCase) : LowerCase[k] = s[i]
       THEN UpperCase[CHOOSE k \in 1..Len(LowerCase) : LowerCase[k] = s[i]]
       ELSE s[i]]

\* The string with the characters of s.
RECURSIVE Str(_)
Str(s) == IF s = <<>> THEN "" ELSE Head(s) \o Str(Tail(s))

\* Array.prototype.join(sep) over strings given by their characters.
RECURSIVE Join(_, _)
Join(list, sep) ==
  IF list = <<>> THEN ""
  ELSE IF Len(list) = 1 THEN Str(list[1])
  ELSE Str(list[1]) \o sep \o Join(Tail(list), sep)

\* The elements of a set of numbers in ascending order.
RECURSIVE InOrder(_)
InOrder(S) ==
  IF S = {} THEN <<>>
  ELSE LET m == CHOOSE x \in S : \A y \in S : x <= y
       IN <<m>> \o InOrder(S \ {m})

----------------------------------------------------------------------------
(* Inputs *)

\* route.statusCodesCheck values; <<>> is an absent (or empty, equally falsy) check.
CheckAbsent == <<>>
Check2xxOr404 == <<"2", "*", ",", "4", "0", "4">>
Check500 == <<"5", "0", "0">>
Checks == {CheckAbsent, Check2xxOr404, Check500}

\* The path of the inbound request, "/a/b/a".
InboundPath == <<"/", "a", "/", "b", "/", "a">>

\* route.path values; <<>> is an absent (or empty, equally falsy) path.
PathAbsent == <<>>
PathFixed == <<"/", "f">>
Paths == {PathAbsent, PathFixed}

\* route.pathTransform values; <<>> is an absent (or empty) expression.  The
\* malformed expression has no '/' at all.
TransformAbsent == <<>>
TransformGlobal == <<"s", "/", "a", "/", "z", "/", "g">>
TransformMalformed == <<"b", "a", "d">>
PathTransforms == {TransformAbsent, TransformGlobal, TransformMalformed}

\* Request paths and expressions for transformPath: every path of up to
\* MaxPathLen characters behind its leading '/', next to "/a/b/a" and "/a/b";
\* s/a/z, s/a/z/i (a fourth segment that is not 'g'), s/\//-/g and s/x/x next
\* to s/a/z/g.
PathAB == <<"/", "a", "/", "b">>
PathChars == {"/", "a", "x"}
BoundedPaths ==
  {<<"/">> \o t : t \in UNION {[1..n -> PathChars] : n \in 0..MaxPathLen}}
RequestPaths == BoundedPaths \cup {InboundPath, PathAB}

TransformFirst == <<"s", "/", "a", "/", "z">>
TransformOtherFlag == <<"s", "/", "a", "/", "z", "/", "i">>
TransformSlashes == <<"s", "/", "\\", "/", "/", "-", "/", "g">>
TransformIdentity == <<"s", "/", "x", "/", "x">>
Transforms ==
  {TransformGlobal, TransformFirst, TransformOtherFlag, TransformSlashes,
   TransformIdentity}

\* route.timeout and channel.timeout values in milliseconds, next to null.
RouteOwnTimeout == 1000
ChannelTimeout == 5000

\* +config.router.timeout
RouterTimeout == 60000

\* A route of the channel; its index in the channel stands for its name.
\* Every route states its status.  statusCodesCheck is read only for a non-primary
\* enabled route with waitPrimaryResponse, so only such routes carry one.
RouteConfigs ==
  {rc \in [status : {"enabled", "disabled"},
           primary : BOOLEAN,
           waitPrimaryResponse : BOOLEAN,
           statusCodesCheck : Checks,
           path : {PathAbsent},
           pathTransform : {TransformAbsent},
           forwardAuthHeader : {FALSE},
           timeout : {NullTimeout}] :
     rc.statusCodesCheck # CheckAbsent =>
       (rc.waitPrimaryResponse /\ ~rc.primary /\ rc.status = "enabled")}

Channels == [RouteIds -> RouteConfigs]

\* An enabled route in one of its three roles: primary, secondary sent with
\* the primary, secondary sent after the primary.
Role(primary, waitPrimaryResponse) ==
  [status |-> "enabled", primary |-> primary,
   waitPrimaryResponse |-> waitPrimaryResponse,
   statusCodesCheck |-> CheckAbsent, path |-> PathAbsent,
   pathTransform |-> TransformAbsent, forwardAuthHeader |-> FALSE,
   timeout |-> NullTimeout]

Roles == {Role(TRUE, FALSE), Role(FALSE, FALSE), Role(FALSE, TRUE)}

DisabledRoute == [Role(FALSE, FALSE) EXCEPT !.status = "disabled"]

PathRoutes ==
  {[ro EXCEPT !.path = p, !.pathTransform = t] :
     ro \in Roles, p \in Paths, t \in PathTransforms}

HeaderRoutes == {[ro EXCEPT !.forwardAuthHeader = f] : ro \in Roles, f \in BOOLEAN}

TimeoutRoutes ==
  {[ro EXCEPT !.timeout = t] : ro \in Roles, t \in {NullTimeout, RouteOwnTimeout}}

\* The channels whose first two routes are drawn from a set of routes and
\* whose other routes are disabled.
ChannelsOf(rs) ==
  {[r \in RouteIds |-> IF r = 1 THEN a ELSE IF r = 2 THEN b ELSE DisabledRoute] :
     a \in rs, b \in rs}

\* ctx.request.header of the inbound request, with and without credentials.
HeaderWithAuthorization ==
  [n \in {"host", "authorization", "accept"} |->
     IF n = "host" THEN "him.example"
     ELSE IF n = "authorization" THEN "Basic dXNlcg==" ELSE "text/plain"]
HeaderWithoutAuthorization ==
  [n \in {"host", "accept"} |-> HeaderWithAuthorization[n]]
Headers == {HeaderWithAuthorization, HeaderWithoutAuthorization}

\* ctx.request.method values and channel.methods values.
MethodGET == <<"G", "E", "T">>
MethodPOST == <<"P", "O", "S", "T">>
Methods ==
  {MethodGET, <<"g", "e", "t">>, <<"D", "E", "L", "E", "T", "E">>,
   <<"p", "u", "t">>, <<>>, <<" ">>}
MethodLists == {<<>>, <<MethodGET, MethodPOST>>}

DefaultChannel == [methods |-> <<>>, timeout |-> NullTimeout]
DefaultRequest ==
  [method |-> MethodGET, path |-> InboundPath, header |-> HeaderWithAuthorization]

\* What a request arrives with: the routes and the settings of its channel
\* and the request itself.  Each family varies one aspect.
Dispatches ==
  [routes : Channels, channel : {DefaultChannel}, request : {DefaultRequest}]
PathInputs ==
  [routes : ChannelsOf(PathRoutes), channel : {DefaultChannel},
   request : {DefaultRequest}]
HeaderInputs ==
  [routes : ChannelsOf(HeaderRoutes), channel : {DefaultChannel},
   request : {[DefaultRequest EXCEPT !.header = h] : h \in Headers}]
TimeoutInputs ==
  [routes : ChannelsOf(TimeoutRoutes),
   channel : {[DefaultChannel EXCEPT !.timeout = t] :
                t \in {NullTimeout, ChannelTimeout}},
   request : {DefaultRequest}]
MethodInputs ==
  [routes : ChannelsOf(Roles),
   channel : {[DefaultChannel EXCEPT !.methods = ms] : ms \in MethodLists},
   request : {[DefaultRequest EXCEPT !.method = m] : m \in Methods}]
TransformInputs ==
  [routes : {[r \in RouteIds |->
                IF r = 1 THEN [Role(TRUE, FALSE) EXCEPT !.pathTransform = t]
                ELSE DisabledRoute] : t \in Transforms},
   channel : {DefaultChannel},
   request : {[DefaultRequest EXCEPT !.path = p] : p \in RequestPaths}]
Inputs ==
  Dispatches \cup PathInputs \cup HeaderInputs \cup TimeoutInputs \cup MethodInputs
  \cup TransformInputs


\* What the parsed body of a mediator response holds (JSON.parse(response.body)):
\* valid is FALSE when the body is not JSON and JSON.parse throws.
NoJson == [valid |-> FALSE, response |-> [status |-> Undefined, body |-> NoBody],
           error |-> NoError]
MediatorError502 ==
  [valid |-> TRUE, response |-> [status |-> 502, body |-> "bad"],
   error |-> "upstream down"]
MediatorOk200 ==
  [valid |-> TRUE, response |-> [status |-> 200, body |-> "wrapped"],
   error |-> NoError]

\* How a transport call (sendHttpRequest / sendKafkaRequest) settles: resolved
\* with a response, or rejected with an Error.  A network error, a client
\* error and the timeout (which destroys the request with an Error) all reach
\* the router as the same rejection and differ only in the message.
Resolved(status, body, mediator, json) ==
  [kind |-> "response", status |-> status, body |-> body,
   mediator |-> mediator, json |-> json, message |-> NoError]

Rejected(message) ==
  [kind |-> "error", status |-> Undefined, body |-> NoBody,
   mediator |-> FALSE, json |-> NoJson, message |-> message]

Outcomes ==
  { Resolved(200, "hello", FALSE, NoJson),
    Resolved(404, "not found", FALSE, NoJson),
    Resolved(200, "{mediator}", TRUE, MediatorError502),
    Resolved(200, "{mediator}", TRUE, MediatorOk200),
    Resolved(200, "not json", TRUE, NoJson),
    Rejected("Request took longer than") }

----------------------------------------------------------------------------
(* State *)

VARIABLES
  channel,        \* ctx.authorisedChannel: its methods and its timeout
  received,       \* the request as it arrived, before the router touched it
  routes,         \* channel.routes, the argument of sendRequestToRoutes
  sent,           \* per route: path, headers and timeout of the request made
  pc,             \* where the dispatch is
  transport,      \* per route: state of its transport request
  ctx,            \* the request context fields the router writes
  nextCalls,      \* the invocations of next (done), each with the context it saw
  storeCalls,     \* per route: messageStore.storeNonPrimaryResponse calls for it
  storeCallbacks, \* number of those calls whose completion callback has fired
  finalStatusCalls, \* number of messageStore.setFinalStatus calls
  finalStatusSaw, \* writes still outstanding at the setFinalStatus call
  eventsSaved     \* events.saveEvents was called

vars == <<channel, received, routes, sent, pc, transport, ctx, nextCalls, storeCalls, storeCallbacks,
          finalStatusCalls, finalStatusSaw, eventsSaved>>

----------------------------------------------------------------------------
(* Pure functions of router.js *)

\* route.status == null || route.status === 'enabled'
isRouteEnabled(route) == route.status = NullStatus \/ route.status = "enabled"

RECURSIVE CountPrimaries(_, _)
CountPrimaries(rs, i) ==
  IF i > Len(rs) THEN 0
  ELSE (IF isRouteEnabled(rs[i]) /\ rs[i].primary THEN 1 ELSE 0)
       + CountPrimaries(rs, i + 1)

numberOfPrimaryRoutes(rs) == CountPrimaries(rs, 1)

\* A limit off by one: two primaries pass.
containsMultiplePrimaries_OffByOne(rs) == numberOfPrimaryRoutes(rs) > 2

containsMultiplePrimaries(rs) == numberOfPrimaryRoutes(rs) > 1

\* The loop of matchCodeOfPrimaryResponse over the tokens from index i: the
\* first token equal to the status returns true, the first token containing
\* '*' returns the comparison of the first characters, falling off the end
\* returns undefined (falsy).
RECURSIVE MatchCodes(_, _, _)
MatchCodes(codes, status, i) ==
  IF i > Len(codes) THEN FALSE
  ELSE IF ToNumber(codes[i]) = status THEN TRUE
  ELSE IF Includes(codes[i], "*")
    THEN TemplateString(status)[1] = codes[i][1]
  ELSE MatchCodes(codes, status, i + 1)

matchCodeOfPrimaryResponse(status, statusCodesCheck) ==
  IF statusCodesCheck = <<>> THEN TRUE
  ELSE MatchCodes(Split(statusCodesCheck, ","), status, 1)

\* A transform that replaces every match whatever the fourth segment is.
transformPath_AlwaysGlobal(path, expression) ==
  LET sub == Split(HideEscapedSlashes(expression), "/")
  IN IF Len(sub) < 2 THEN Throws
     ELSE LET from == ReplaceChar(sub[2], ":", "/")
              to == ReplaceChar(IF Len(sub) > 2 THEN sub[3] ELSE <<>>, ":", "/")
          IN ReplaceFrom(path, from, to, TRUE, 1)

\* transformPath(path, expression): sub[1] of an expression without '/' is
\* undefined and sub[1].replace throws a TypeError.
transformPath(path, expression) ==
  LET sub == Split(HideEscapedSlashes(expression), "/")
  IN IF Len(sub) < 2 THEN Throws
     ELSE LET from == ReplaceChar(sub[2], ":", "/")
              to == ReplaceChar(IF Len(sub) > 2 THEN sub[3] ELSE <<>>, ":", "/")
              global == Len(sub) > 3 /\ sub[4] = <<"g">>
          IN ReplaceFrom(path, from, to, global, 1)

getDestinationPath(route, requestPath) ==
  IF route.path # <<>> THEN route.path
  ELSE IF route.pathTransform # <<>>
    THEN transformPath(requestPath, route.pathTransform)
  ELSE requestPath

\* constructOptionsObject(ctx, route, keystore, path): options.headers is
\* ctx.request.header itself, and the deletions are made on that object.
constructOptionsObject(c, route, path) ==
  LET header == c.request.header
      deleted ==
        (IF "authorization" \in DOMAIN header /\ ~route.forwardAuthHeader
           THEN {"authorization"} ELSE {})
        \cup {"host"}
  IN [path |-> path, headers |-> [n \in DOMAIN header \ deleted |-> header[n]]]

\* http.request(options) of sendHttpRequest throws ERR_INVALID_HTTP_TOKEN
\* inside the promise executor for a method that is not empty and is not an
\* HTTP token, which over the characters of the request methods is one that
\* holds a space; the promise of the transport is then rejected while the
\* request is made, and no timeout is set on it.  An empty method is sent as
\* GET.
InvalidHttpToken(method) ==
  method # <<>> /\ \E i \in 1..Len(method) : method[i] = " "

InvalidTokenRejection(method) ==
  Rejected("Method must be a valid HTTP token [\"" \o Str(method) \o "\"]")

\* The timeout sendHttpRequest sets on the request of a route.
RequestTimeout(route) ==
  IF route.timeout # NullTimeout THEN route.timeout ELSE RouterTimeout

\* utils.isNullOrWhitespace(method): nothing but white space.
isNullOrWhitespace(method) == \A i \in 1..Len(method) : method[i] = " "

\* The test without method.toUpperCase().
isMethodAllowed_CaseSensitive(method, methods) ==
  \/ isNullOrWhitespace(method)
  \/ Len(methods) = 0
  \/ \E i \in 1..Len(methods) : methods[i] = method

\* The result of isMethodAllowed(ctx, channel).
isMethodAllowed(method, methods) ==
  \/ isNullOrWhitespace(method)
  \/ Len(methods) = 0
  \/ \E i \in 1..Len(methods) : methods[i] = ToUpperCase(method)

\* The body isMethodAllowed gives the response of a request it refuses.
NotAllowedBody(method, methods) ==
  "Request with method " \o Str(method) \o " is not allowed. Only "
  \o Join(methods, ", ") \o " methods are allowed"

routesToRunAfterPrimary(rs) ==
  {r \in DOMAIN rs :
     rs[r].waitPrimaryResponse /\ ~rs[r].primary /\ isRouteEnabled(rs[r])}

\* The filter without its isRouteEnabled test.
routesToRunSimultaneously_NoEnabledTest(rs) ==
  {r \in DOMAIN rs : r \notin routesToRunAfterPrimary(rs)}

routesToRunSimultaneously(rs) ==
  {r \in DOMAIN rs : r \notin routesToRunAfterPrimary(rs) /\ isRouteEnabled(rs[r])}


----------------------------------------------------------------------------
(* Writes to the request context *)

\* setKoaResponse(ctx, response): status and body of the context response.
setKoaResponse(c, response) ==
  [c EXCEPT !.response = [status |-> response.status, body |-> response.body]]

\* The error handler without `ctx.autoRetry = true`.
handleServerError_NoAutoRetry(c, message) ==
  [c EXCEPT !.response = [status |-> 500,
                          body |-> "An internal server error occurred"],
            !.error = message]

\* handleServerError(ctx, err) without a route: the primary route failed.
handleServerError(c, message) ==
  [c EXCEPT !.autoRetry = TRUE,
            !.response = [status |-> 500,
                          body |-> "An internal server error occurred"],
            !.error = message]

\* A handler that leaves ctx.autoRetry alone when it is given a route record.
handleRouteError_NoAutoRetry(c) == c

\* handleServerError(ctx, err, route) with a route record: only autoRetry is
\* written to the context, the error goes to the record.
handleRouteError(c) == [c EXCEPT !.autoRetry = TRUE]

\* buildOrchestration(response) of sendRequest for route r: the record
\* carries `error` for an Error and `response` (headers, status, body)
\* otherwise.
buildOrchestration(r, out) ==
  [name |-> r,
   kind |-> IF out.kind = "error" THEN "error" ELSE "response",
   status |-> out.status,
   body |-> out.body,
   mediator |-> out.mediator,
   message |-> out.message]

\* Recording without the `if (!route.primary) return`.
recordOrchestration_AnyRoute(c, r, out) ==
  [c EXCEPT !.orchestrations = Append(@, buildOrchestration(r, out))]

\* recordOrchestration(response) of sendRequest, for a settled transport call
\* of route r: only a primary route gets an orchestration.
recordOrchestration(c, r, out) ==
  IF ~routes[r].primary THEN c
  ELSE [c EXCEPT !.orchestrations = Append(@, buildOrchestration(r, out))]

\* The first .then of the primary promise throws when JSON.parse does.
PrimaryThenThrows(out) == out.mediator /\ ~out.json.valid

\* A .then that applies the wrapper of a mediator response, not the response
\* embedded in it.
PrimaryThen_WrapperResponse(c, out) ==
  IF out.mediator
    THEN LET c1 == [c EXCEPT !.mediatorResponse = out.json]
             c2 == IF out.json.error # NoError
                     THEN [c1 EXCEPT !.autoRetry = TRUE, !.error = out.json.error]
                     ELSE c1
         IN setKoaResponse(c2, out)
    ELSE setKoaResponse(c, out)

\* The first .then of the primary promise, for a response it can apply.
PrimaryThen(c, out) ==
  IF out.mediator
    THEN LET c1 == [c EXCEPT !.mediatorResponse = out.json]
             c2 == IF out.json.error # NoError
                     THEN [c1 EXCEPT !.autoRetry = TRUE, !.error = out.json.error]
                     ELSE c1
         IN setKoaResponse(c2, out.json.response)
    ELSE setKoaResponse(c, out)

\* The reactions of the primary promise up to, not including, next().
PrimarySettled(c, out) ==
  IF out.kind = "error" THEN handleServerError(c, out.message)
  ELSE IF PrimaryThenThrows(out) THEN handleServerError(c, "SyntaxError")
  ELSE PrimaryThen(c, out)

\* A record that never carries the error.
RouteRecord_NoErrorField(r, out) == [name |-> r, error |-> NoError]

\* The record buildNonPrimarySendRequestPromise pushes for route r: its name
\* and, when the request failed or the .then threw (JSON.parse of a mediator
\* body), the error that handleServerError attaches.  The request and
\* response that the record also carries are not part of the model.
RouteRecord(r, out) ==
  IF out.kind = "error"
    THEN [name |-> r, error |-> out.message]
  ELSE IF out.mediator /\ ~out.json.valid
    THEN [name |-> r, error |-> "SyntaxError"]
  ELSE [name |-> r, error |-> NoError]

\* A .catch that handles the error without pushing the record.
NonPrimarySettled_NoPushOnFailure(c, r, out) ==
  LET rec == RouteRecord(r, out)
  IN IF rec.error # NoError THEN handleRouteError(c)
     ELSE [c EXCEPT !.routes = Append(@, rec)]

\* A record put at the front of ctx.routes.
NonPrimarySettled_PushFront(c, r, out) ==
  LET rec == RouteRecord(r, out)
      c1 == [c EXCEPT !.routes = <<rec>> \o @]
  IN IF rec.error # NoError THEN handleRouteError(c1) ELSE c1

\* A secondary whose response is applied to the context like the primary's.
NonPrimarySettled_SetsResponse(c, r, out) ==
  LET rec == RouteRecord(r, out)
      c1 == [c EXCEPT !.routes = Append(@, rec)]
  IN IF rec.error # NoError THEN handleRouteError(c1) ELSE setKoaResponse(c1, out)

\* buildNonPrimarySendRequestPromise: push the record; a failure also goes
\* through handleServerError(ctx, reason, routeObj).
NonPrimarySettled(c, r, out) ==
  LET rec == RouteRecord(r, out)
      c1 == [c EXCEPT !.routes = Append(@, rec)]
  IN IF rec.error # NoError THEN handleRouteError(c1) ELSE c1

\* What next (done) is called with, and the context at that moment.
NextCall(err, c) ==
  [err |-> err, status |-> c.response.status, body |-> c.response.body,
   error |-> c.error, autoRetry |-> c.autoRetry]


----------------------------------------------------------------------------
(* The dispatch *)

Settled == {"Succeeded", "Failed"}

\* The wave-B routes whose request the second loop starts, given the status
\* of the context response after wave A.
WaveBDispatched(rs, status) ==
  {r \in routesToRunAfterPrimary(rs) :
     rs[r].waitPrimaryResponse
     /\ matchCodeOfPrimaryResponse(status, rs[r].statusCodesCheck)}

\* The body of either loop of the getKeystore callback, for the routes of
\* order from index i on.  st holds the context c, the transports tr and the
\* requests made snt as the loop has left them, next to the store calls and
\* the invocations of next, which the loop leaves alone.  Each iteration computes the
\* path, which can throw and then ends the loop (threw), builds the options
\* and, in the first loop or if the route passes the test of the second,
\* starts the request.
RECURSIVE StartRoutes(_, _, _, _)
StartRoutes(order, i, st, second) ==
  IF i > Len(order) THEN st
  ELSE
    LET r == order[i]
        path == getDestinationPath(routes[r], st.c.request.path)
    IN IF path = Throws THEN [st EXCEPT !.threw = TRUE]
       ELSE
         LET options == constructOptionsObject(st.c, routes[r], path)
             c1 == [st.c EXCEPT !.request.header = options.headers]
             c2 == IF ~second /\ routes[r].primary
                     THEN [c1 EXCEPT !.primaryRoute = r] ELSE c1
             go == ~second \/ r \in WaveBDispatched(routes, c2.response.status)
             request == [path |-> options.path, headers |-> options.headers,
                         timeout |-> IF InvalidHttpToken(c2.request.method)
                                       THEN NullTimeout
                                       ELSE RequestTimeout(routes[r])]
         IN StartRoutes(order, i + 1,
              [st EXCEPT
                 !.c = c2,
                 !.tr = IF go THEN [st.tr EXCEPT ![r] = "InFlight"] ELSE st.tr,
                 !.snt = IF go THEN [st.snt EXCEPT ![r] = request] ELSE st.snt],
              second)

\* The reactions to the requests that a loop has just made, for the routes of
\* order from index i on, when making them threw on the method: every
\* transport promise is rejected already, and when the synchronous part of
\* the turn has ended the reactions of each run as they do for a transport
\* that fails later.  st holds the context c, the transports tr, the store
\* calls and the invocations of next as the turn has left them.
RECURSIVE RejectStarted(_, _, _)
RejectStarted(order, i, st) ==
  IF i > Len(order) \/ ~InvalidHttpToken(st.c.request.method) THEN st
  ELSE
    LET r == order[i]
        out == InvalidTokenRejection(st.c.request.method)
        c1 == recordOrchestration(st.c, r, out)
        c2 == IF routes[r].primary
                THEN PrimarySettled(c1, out)
                ELSE NonPrimarySettled(c1, r, out)
    IN IF st.tr[r] # "InFlight" THEN RejectStarted(order, i + 1, st)
       ELSE RejectStarted(order, i + 1,
              [st EXCEPT
                 !.c = c2,
                 !.tr = [st.tr EXCEPT ![r] = "Failed"],
                 !.calls = IF routes[r].primary THEN st.calls
                           ELSE [st.calls EXCEPT ![r] = @ + 1],
                 !.nexts = IF routes[r].primary
                             THEN Append(st.nexts, NextCall(NoError, c2))
                             ELSE st.nexts])

\* storeNonPrimaryResponse calls made so far, given the calls per route.
RECURSIVE SumCalls(_, _)
SumCalls(calls, i) ==
  IF i > MaxRoutes THEN 0 ELSE calls[i] + SumCalls(calls, i + 1)

\* A join that a failed wave-A request short-circuits.
WaveAJoined_ShortCircuit(tr) ==
  \/ \A r \in routesToRunSimultaneously(routes) : tr[r] \in Settled
  \/ \E r \in routesToRunSimultaneously(routes) : tr[r] = "Failed"

\* `await Promise.all(firstPromises)` continues once every wave-A promise has
\* resolved; none of them rejects on a transport failure, each ends in a
\* .catch or in the try/catch of storingNonPrimaryRouteResp.
WaveAJoined(tr) ==
  \A r \in routesToRunSimultaneously(routes) : tr[r] \in Settled

\* Promise.all(secondaryPromises) resolves once every started wave-B promise
\* has resolved.
WaveBJoined(tr) ==
  \A r \in routesToRunAfterPrimary(routes) : tr[r] # "InFlight"

\* The promise reactions that end a turn of the dispatch.  c, tr, snt and calls
\* are the context, the transports, the requests made and the store calls as
\* the turn has left them, at
\* the `await Promise.all(firstPromises)` (phase "waveA") or at
\* Promise.all(secondaryPromises) (phase "waveB"), or after a loop of the
\* callback threw (phase "aborted": the callback has ended and nothing is
\* joined).  When the last wave-A promise has resolved the second loop starts
\* wave B; when the last started wave-B promise has resolved (at once if none
\* was started) setFinalStatus is called and, if ctx.routes exists, the route
\* events are saved.
JoinWaves(c, tr, snt, calls, phase) ==
  LET startB == phase = "waveA" /\ WaveAJoined(tr)
      orderB == InOrder(routesToRunAfterPrimary(routes))
      st0 == [c |-> c, tr |-> tr, snt |-> snt, threw |-> FALSE,
              calls |-> calls, nexts |-> <<>>]
      rj == IF startB
              THEN RejectStarted(orderB, 1, StartRoutes(orderB, 1, st0, TRUE))
              ELSE st0
      tr2 == rj.tr
      phase2 == IF rj.threw THEN "aborted" ELSE IF startB THEN "waveB" ELSE phase
      bDone == phase2 = "waveB" /\ WaveBJoined(tr2)
  IN /\ ctx' = rj.c
     /\ transport' = tr2
     /\ sent' = rj.snt
     /\ storeCalls' = rj.calls
     /\ pc' = IF bDone THEN "finished" ELSE phase2
     /\ finalStatusCalls' = IF bDone THEN finalStatusCalls + 1 ELSE finalStatusCalls
     /\ finalStatusSaw' =
          IF bDone THEN SumCalls(rj.calls, 1) - storeCallbacks ELSE finalStatusSaw
     /\ eventsSaved' = IF bDone THEN rj.c.routes # <<>> ELSE eventsSaved

\* No request made for a route.
NotSent ==
  [path |-> <<>>, headers |-> [n \in {} |-> ""], timeout |-> NullTimeout]

Init ==
  /\ \E input \in Inputs :
       /\ routes = input.routes
       /\ channel = input.channel
       /\ received = input.request
  /\ pc = "route"
  /\ transport = [r \in RouteIds |-> "Pending"]
  /\ sent = [r \in RouteIds |-> NotSent]
  /\ ctx = [request |-> received,
            response |-> [status |-> Undefined, body |-> NoBody],
            error |-> NoError,
            autoRetry |-> FALSE,
            primaryRoute |-> 0,
            mediatorResponse |-> NoJson,
            routes |-> <<>>,
            orchestrations |-> <<>>]
  /\ nextCalls = <<>>
  /\ storeCalls = [r \in RouteIds |-> 0]
  /\ storeCallbacks = 0
  /\ finalStatusCalls = 0
  /\ finalStatusSaw = 0
  /\ eventsSaved = FALSE

\* route(ctx, next): a request whose method the channel does not allow gets
\* the 405 response and next(); for any other the channel timeout, if there
\* is one, is written onto every route and the routes are dispatched.
Route ==
  /\ pc = "route"
  /\ IF ~isMethodAllowed(ctx.request.method, channel.methods)
       THEN LET c1 == [ctx EXCEPT !.response =
                         [status |-> 405,
                          body |-> NotAllowedBody(ctx.request.method,
                                                  channel.methods)]]
            IN /\ ctx' = c1
               /\ nextCalls' = Append(nextCalls, NextCall(NoError, c1))
               /\ pc' = "notAllowed"
               /\ routes' = routes
       ELSE /\ routes' =
                 IF channel.timeout # NullTimeout
                   THEN [r \in RouteIds |->
                           [routes[r] EXCEPT !.timeout = channel.timeout]]
                   ELSE routes
            /\ pc' = "start"
            /\ UNCHANGED <<ctx, nextCalls>>
  /\ UNCHANGED <<channel, received, sent, transport, storeCalls, storeCallbacks,
                 finalStatusCalls, finalStatusSaw, eventsSaved>>

\* sendRequestToRoutes up to the call of utils.getKeystore.
SendRequestToRoutes ==
  /\ pc = "start"
  /\ IF containsMultiplePrimaries(routes)
       THEN /\ nextCalls' = Append(nextCalls, NextCall("multiple primary routes", ctx))
            /\ pc' = "rejected"
       ELSE /\ nextCalls' = nextCalls
            /\ pc' = "keystore"
  /\ UNCHANGED <<channel, received, routes, sent, transport, ctx, storeCalls,
                 storeCallbacks, finalStatusCalls, finalStatusSaw, eventsSaved>>

\* The getKeystore callback with an error: `return err`.
KeystoreFailed ==
  /\ pc = "keystore"
  /\ pc' = "keystoreFailed"
  /\ UNCHANGED <<channel, received, routes, sent, transport, ctx, nextCalls,
                 storeCalls, storeCallbacks, finalStatusCalls, finalStatusSaw,
                 eventsSaved>>

\* The getKeystore callback with a keystore: the first loop starts the
\* request of every wave-A route, then awaits them.  A throw in the loop
\* rejects the promise of the async callback, which nothing handles.  Requests
\* that were rejected while they were made have their reactions, and what
\* these make runnable, in this same turn.
KeystoreAcquired ==
  /\ pc = "keystore"
  /\ LET orderA == InOrder(routesToRunSimultaneously(routes))
         st == StartRoutes(orderA, 1,
                           [c |-> ctx, tr |-> transport, snt |-> sent,
                            threw |-> FALSE, calls |-> storeCalls,
                            nexts |-> nextCalls],
                           FALSE)
         rj == RejectStarted(orderA, 1, st)
     IN /\ nextCalls' = rj.nexts
        /\ JoinWaves(rj.c, rj.tr, rj.snt, rj.calls,
                     IF rj.threw THEN "aborted" ELSE "waveA")
  /\ UNCHANGED <<channel, received, routes, storeCallbacks>>

\* A dispatch whose next() waits for the join of wave A.
Settle_DoneAtJoin(r, out) ==
  /\ pc \in {"waveA", "waveB", "aborted"}
  /\ transport[r] = "InFlight"
  /\ LET c1 == recordOrchestration(ctx, r, out)
         c2 == IF routes[r].primary
                 THEN PrimarySettled(c1, out)
                 ELSE NonPrimarySettled(c1, r, out)
         tr1 == [transport EXCEPT
                   ![r] = IF out.kind = "error" THEN "Failed" ELSE "Succeeded"]
         calls == IF routes[r].primary THEN storeCalls
                  ELSE [storeCalls EXCEPT ![r] = @ + 1]
     IN /\ nextCalls' = IF nextCalls = <<>> /\ WaveAJoined(tr1)
                          THEN Append(nextCalls, NextCall(NoError, c2))
                          ELSE nextCalls
        /\ JoinWaves(c2, tr1, sent, calls, pc)
  /\ UNCHANGED <<channel, received, routes, storeCallbacks>>

\* The transport request of route r settles with outcome out; the reactions
\* of sendRequest and of the route's promise run, and next() for the primary.
Settle(r, out) ==
  /\ pc \in {"waveA", "waveB", "aborted"}
  /\ transport[r] = "InFlight"
  /\ LET c1 == recordOrchestration(ctx, r, out)
         c2 == IF routes[r].primary
                 THEN PrimarySettled(c1, out)
                 ELSE NonPrimarySettled(c1, r, out)
         tr1 == [transport EXCEPT
                   ![r] = IF out.kind = "error" THEN "Failed" ELSE "Succeeded"]
         calls == IF routes[r].primary THEN storeCalls
                  ELSE [storeCalls EXCEPT ![r] = @ + 1]
     IN /\ nextCalls' = IF routes[r].primary
                          THEN Append(nextCalls, NextCall(NoError, c2))
                          ELSE nextCalls
        /\ JoinWaves(c2, tr1, sent, calls, pc)
  /\ UNCHANGED <<channel, received, routes, storeCallbacks>>

\* A write started by messageStore.storeNonPrimaryResponse completes and the
\* callback the router passed, () => {}, fires.
StoreCallback ==
  /\ storeCallbacks < SumCalls(storeCalls, 1)
  /\ storeCallbacks' = storeCallbacks + 1
  /\ UNCHANGED <<channel, received, routes, sent, pc, transport, ctx, nextCalls,
                 storeCalls, finalStatusCalls, finalStatusSaw, eventsSaved>>

Next ==
  \/ Route
  \/ SendRequestToRoutes
  \/ KeystoreFailed
  \/ KeystoreAcquired
  \/ \E r \in RouteIds, out \in Outcomes : Settle(r, out)
  \/ StoreCallback

Spec == Init /\ [][Next]_vars


----------------------------------------------------------------------------
(* Properties *)

\* The routes by their configuration.
EnabledRoutes == {r \in RouteIds : routes[r].status = "enabled"}
DisabledRoutes == {r \in RouteIds : routes[r].status = "disabled"}
EnabledPrimaries == {r \in EnabledRoutes : routes[r].primary}
WaveB == {r \in EnabledRoutes : ~routes[r].primary /\ routes[r].waitPrimaryResponse}
WaveA == EnabledRoutes \ WaveB

Started == {r \in RouteIds : transport[r] # "Pending"}
InFlight == {r \in RouteIds : transport[r] = "InFlight"}

RouteEntries(r) == {i \in 1..Len(ctx.routes) : ctx.routes[i].name = r}
OrchestrationEntries(r) ==
  {i \in 1..Len(ctx.orchestrations) : ctx.orchestrations[i].name = r}

\* The dispatch has nothing left to run: the keystore callback has run and no
\* transport is in flight.
Quiescent == pc \notin {"route", "start", "keystore"} /\ InFlight = {}

\* C1: for every dispatch next (done) is invoked exactly once: never a second
\* time, and once every started transport has settled it has been invoked.
C1_DoneExactlyOnce ==
  /\ Len(nextCalls) <= 1
  /\ Quiescent => Len(nextCalls) = 1

\* C2: with two or more enabled primaries the dispatch calls next with the
\* 'multiple primary routes' error, starts no transport and appends nothing to
\* ctx.orchestrations or ctx.routes; disabled primaries do not count, so with
\* at most one enabled primary that error is never passed to next.
C2_MultiplePrimariesRejected ==
  pc \notin {"route", "notAllowed", "start"} =>
    IF Cardinality(EnabledPrimaries) >= 2
      THEN /\ Len(nextCalls) = 1
           /\ nextCalls[1].err = "multiple primary routes"
           /\ Started = {}
           /\ ctx.routes = <<>>
           /\ ctx.orchestrations = <<>>
      ELSE \A i \in 1..Len(nextCalls) : nextCalls[i].err # "multiple primary routes"

\* A dispatch rejected for two enabled primaries next to a disabled primary.
C2_Witness ==
  /\ pc = "rejected"
  /\ Cardinality(EnabledPrimaries) = 2
  /\ \E r \in DisabledRoutes : routes[r].primary
  /\ Len(nextCalls) = 1

\* C3: a disabled route has no transport request started, no entry in
\* ctx.routes or ctx.orchestrations, is never passed to
\* storeNonPrimaryResponse and is never ctx.primaryRoute.
C3_DisabledRouteUntouched ==
  \A r \in DisabledRoutes :
    /\ transport[r] = "Pending"
    /\ RouteEntries(r) = {}
    /\ OrchestrationEntries(r) = {}
    /\ storeCalls[r] = 0
    /\ ctx.primaryRoute # r

\* A finished dispatch that ran other routes next to a disabled primary and a
\* disabled wait-for-primary route.
C3_Witness ==
  /\ pc = "finished"
  /\ \E r \in DisabledRoutes : routes[r].primary
  /\ \E r \in DisabledRoutes : ~routes[r].primary /\ routes[r].waitPrimaryResponse
  /\ \E r \in EnabledRoutes : transport[r] \in Settled


\* C4 as stated: when a dispatch that passed preflight has finished, ctx.routes
\* holds exactly one entry for every enabled non-primary route, wait-for-primary
\* routes included, and no other entry.
C4_EveryEnabledSecondaryRecorded ==
  pc = "finished" =>
    /\ \A r \in EnabledRoutes \ EnabledPrimaries : Cardinality(RouteEntries(r)) = 1
    /\ \A i \in 1..Len(ctx.routes) :
         ctx.routes[i].name \in EnabledRoutes \ EnabledPrimaries

\* C4 amended: when a dispatch that passed preflight has finished, ctx.routes
\* holds exactly one entry for every enabled non-primary route that was
\* dispatched, which are all the routes without waitPrimaryResponse and the
\* wait-for-primary routes whose request was started; a wait-for-primary route
\* that was not started has no entry, and there is no other entry.
C4_EveryDispatchedSecondaryRecorded ==
  pc = "finished" =>
    /\ \A r \in WaveA \ EnabledPrimaries : Cardinality(RouteEntries(r)) = 1
    /\ \A r \in WaveB :
         Cardinality(RouteEntries(r)) = IF r \in Started THEN 1 ELSE 0
    /\ \A i \in 1..Len(ctx.routes) :
         ctx.routes[i].name \in EnabledRoutes \ EnabledPrimaries

\* A finished dispatch with a failed wave-A secondary, a started wave-B route
\* and a wave-B route that was not started.
C4_Witness ==
  /\ pc = "finished"
  /\ \E r \in WaveA \ EnabledPrimaries : transport[r] = "Failed"
  /\ \E r \in WaveB : r \in Started
  /\ \E r \in WaveB : r \notin Started

\* C5: ctx.orchestrations gets entries only for the primary route, one per
\* transport attempt on it, carrying the response when the attempt succeeded
\* and the error when it failed; no attempt on a non-primary route appends one.
C5_OrchestrationsOnlyForPrimary ==
  /\ \A r \in RouteIds \ EnabledPrimaries : OrchestrationEntries(r) = {}
  /\ \A r \in EnabledPrimaries :
       /\ Cardinality(OrchestrationEntries(r)) =
            IF transport[r] \in Settled THEN 1 ELSE 0
       /\ \A i \in OrchestrationEntries(r) :
            ctx.orchestrations[i].kind =
              IF transport[r] = "Failed" THEN "error" ELSE "response"

\* The primary and a secondary have both failed, another secondary succeeded.
C5_Witness ==
  /\ \E r \in EnabledPrimaries : transport[r] = "Failed"
  /\ \E r \in EnabledRoutes \ EnabledPrimaries : transport[r] = "Failed"
  /\ \E r \in EnabledRoutes \ EnabledPrimaries : transport[r] = "Succeeded"
  /\ Len(ctx.orchestrations) = 1

\* The primary attempt recorded in orchestration o failed: the transport
\* rejected, or applying the response threw (a mediator body that is not JSON).
PrimaryAttemptFailed(o) ==
  o.kind = "error" \/ (o.mediator /\ o.body = "not json")

FailureMessage(o) == IF o.kind = "error" THEN o.message ELSE "SyntaxError"

\* C6: if the primary route's transport fails (error, timeout, or an exception
\* while applying its response), next is invoked without an error argument
\* when ctx.response is status 500 with body 'An internal server error
\* occurred', ctx.error is the failure's message and ctx.autoRetry is true.
C6_PrimaryFailureGives500 ==
  \A i \in 1..Len(ctx.orchestrations) :
    PrimaryAttemptFailed(ctx.orchestrations[i]) =>
      /\ Len(nextCalls) = 1
      /\ nextCalls[1] =
           [err |-> NoError,
            status |-> 500,
            body |-> "An internal server error occurred",
            error |-> FailureMessage(ctx.orchestrations[i]),
            autoRetry |-> TRUE]

\* The primary's request timed out while a secondary is still in flight.
C6_Witness ==
  /\ \E i \in 1..Len(ctx.orchestrations) :
       /\ ctx.orchestrations[i].kind = "error"
       /\ ctx.orchestrations[i].message = "Request took longer than"
  /\ Len(nextCalls) = 1
  /\ InFlight # {}


\* C7: no wave-B route has its transport started until every wave-A route has
\* settled and, for the primary among them, its response (or the synthetic
\* 500) has been applied to the context and next has been invoked; a failed
\* wave-A route does not let wave B start while another is still in flight.
C7_WaveBAfterWaveA ==
  \A b \in WaveB :
    b \in Started =>
      \A a \in WaveA :
        /\ transport[a] \in Settled
        /\ routes[a].primary =>
             /\ Len(nextCalls) = 1
             /\ nextCalls[1].err = NoError
             /\ nextCalls[1].status # Undefined
             /\ ctx.response.status = nextCalls[1].status

\* Wave B is in flight after a wave-A secondary failed and the primary settled.
C7_Witness ==
  /\ \E b \in WaveB : transport[b] = "InFlight"
  /\ \E a \in WaveA : routes[a].primary /\ transport[a] \in Settled
  /\ \E a \in WaveA : ~routes[a].primary /\ transport[a] = "Failed"

\* C8: setFinalStatus is called only after the storeNonPrimaryResponse write of
\* every dispatched secondary has completed (its callback has fired): at the
\* call no such write is outstanding.
C8_FinalStatusAfterWrites ==
  finalStatusCalls > 0 => finalStatusSaw = 0

\* The gating predicate as the specification words it: an absent check passes;
\* otherwise some comma-separated token equals the status, or some token
\* containing '*' has the first digit of the status as its first character.
SpecMatches(statusCodesCheck, status) ==
  \/ statusCodesCheck = <<>>
  \/ LET codes == Split(statusCodesCheck, ",")
     IN \E i \in 1..Len(codes) :
          \/ ToNumber(codes[i]) = status
          \/ /\ Includes(codes[i], "*")
             /\ codes[i][1] = TemplateString(status)[1]

\* C9: a wave-B route is dispatched if and only if the gating predicate of the
\* specification passes on the status of the context response; with primary
\* status 404 a route with statusCodesCheck '2*,404' is dispatched.
C9_WaveBDispatchedIffSpecMatches ==
  pc \in {"waveB", "finished"} =>
    \A b \in WaveB :
      b \in Started <=> SpecMatches(routes[b].statusCodesCheck, ctx.response.status)

\* C10: if keystore acquisition fails, the keystore error is passed to next
\* and no route's transport is started.
C10_KeystoreErrorReturned ==
  pc = "keystoreFailed" =>
    /\ Len(nextCalls) = 1
    /\ nextCalls[1].err # NoError
    /\ Started = {}

\* An expression that transformPath cannot take apart: it is set and has no
\* '/' to split at.
MalformedExpression(e) == e # <<>> /\ ~Includes(e, "/")

\* The getKeystore callback has run with a keystore.
Dispatched == pc \in {"waveA", "waveB", "aborted", "finished"}

\* C11: when an enabled route carries a malformed pathTransform the dispatch
\* is fatal: next is invoked with the error and no transport request has been
\* started for any route, the routes before the malformed one included.
C11_MalformedTransformIsFatal ==
  (Dispatched /\ \E r \in EnabledRoutes : MalformedExpression(routes[r].pathTransform))
    => /\ Len(nextCalls) = 1
       /\ nextCalls[1].err # NoError
       /\ Started = {}

\* The channel refuses the method of the request: the method is not blank,
\* the list is not empty and the upper-cased method is not in the list.
MethodRefused ==
  /\ \E i \in 1..Len(received.method) : received.method[i] # " "
  /\ channel.methods # <<>>
  /\ \A i \in 1..Len(channel.methods) :
       channel.methods[i] # ToUpperCase(received.method)

\* C12: a request whose method the channel refuses gets status 405 and the
\* 'Request with method <M> is not allowed...' body, next is invoked exactly
\* once, and no transport is started, no record appended and no persistence
\* or event collaborator called; a request with a blank method, or to a
\* channel with an empty method list, is dispatched.
C12_MethodNotAllowed ==
  pc # "route" =>
    IF MethodRefused
      THEN /\ pc = "notAllowed"
           /\ ctx.response.status = 405
           /\ ctx.response.body =
                "Request with method " \o Str(received.method)
                \o " is not allowed. Only " \o Join(channel.methods, ", ")
                \o " methods are allowed"
           /\ Len(nextCalls) = 1
           /\ nextCalls[1].err = NoError
           /\ Started = {}
           /\ ctx.routes = <<>>
           /\ ctx.orchestrations = <<>>
           /\ \A r \in RouteIds : storeCalls[r] = 0
           /\ finalStatusCalls = 0
           /\ ~eventsSaved
      ELSE pc # "notAllowed"

\* A lower-case 'put' refused by a channel that allows GET and POST.
C12_Witness ==
  /\ pc = "notAllowed"
  /\ received.method = <<"p", "u", "t">>
  /\ ctx.response.status = 405
  /\ ctx.response.body =
       "Request with method put is not allowed. Only GET, POST methods are allowed"
  /\ Len(nextCalls) = 1

\* The statuses the primary route returned: the status of a plain response,
\* the embedded status of a mediator response.
PrimaryStatuses ==
  {ctx.orchestrations[i].status :
     i \in {j \in 1..Len(ctx.orchestrations) :
              /\ ctx.orchestrations[j].kind = "response"
              /\ ~ctx.orchestrations[j].mediator}}
  \cup (IF ctx.mediatorResponse.valid
          THEN {ctx.mediatorResponse.response.status} ELSE {})

\* The transport of a non-primary route settles in this step.
SecondarySettles ==
  \E r \in RouteIds :
    ~routes[r].primary /\ transport[r] = "InFlight" /\ transport'[r] \in Settled

\* C13: when next is invoked without an error ctx.response.status is the
\* status the primary route returned (the embedded status for a mediator
\* response), 500 or 405; and the settling of a secondary route never changes
\* ctx.response.
C13_StatusAtDone ==
  /\ [](\A i \in 1..Len(nextCalls) :
         nextCalls[i].err = NoError =>
           nextCalls[i].status \in PrimaryStatuses \cup {500, 405})
  /\ [][SecondarySettles => ctx'.response = ctx.response]_vars

\* The primary answered 404 and a secondary of the same dispatch succeeded.
C13_Witness ==
  /\ pc = "finished"
  /\ Len(nextCalls) = 1
  /\ nextCalls[1].status = 404
  /\ ctx.response.status = 404
  /\ \E r \in RouteIds : ~routes[r].primary /\ transport[r] = "Succeeded"

\* C14: when the primary answers with a mediator response whose parsed body
\* has an error, then at next ctx.error is that error, ctx.autoRetry is true,
\* ctx.mediatorResponse is the parsed wrapper and ctx.response has the status
\* and body of the embedded response; when it has no error the primary
\* leaves ctx.error and ctx.autoRetry as they were.
C14_MediatorError ==
  [][\A r \in RouteIds, out \in Outcomes :
       (/\ routes[r].primary
        /\ out.kind = "response"
        /\ out.mediator
        /\ out.json.valid
        /\ Settle(r, out))
       => IF out.json.error # NoError
            THEN /\ ctx'.error = out.json.error
                 /\ ctx'.autoRetry
                 /\ ctx'.mediatorResponse = out.json
                 /\ ctx'.response = [status |-> out.json.response.status,
                                     body |-> out.json.response.body]
                 /\ Len(nextCalls') = Len(nextCalls) + 1
                 /\ nextCalls'[Len(nextCalls')] =
                      [err |-> NoError,
                       status |-> out.json.response.status,
                       body |-> out.json.response.body,
                       error |-> out.json.error,
                       autoRetry |-> TRUE]
            ELSE /\ ctx'.error = ctx.error
                 /\ ctx'.autoRetry = ctx.autoRetry
                 /\ ctx'.mediatorResponse = out.json]_vars

\* next was invoked after a mediator response that reported 'upstream down'
\* around an embedded 502.
C14_Witness ==
  /\ Len(nextCalls) = 1
  /\ nextCalls[1].status = 502
  /\ nextCalls[1].body = "bad"
  /\ nextCalls[1].error = "upstream down"
  /\ nextCalls[1].autoRetry
  /\ ctx.mediatorResponse = MediatorError502

\* C15: once the transport of the primary has settled its response is
\* applied and next has been invoked, whatever the state of the other wave-A
\* routes: a wave-A secondary that is still in flight does not hold next back.
C15_PrimaryDoesNotWait ==
  \A r \in EnabledPrimaries :
    transport[r] \in Settled =>
      /\ Len(nextCalls) = 1
      /\ nextCalls[1].err = NoError
      /\ nextCalls[1].status = ctx.response.status
      /\ nextCalls[1].status # Undefined
      /\ Cardinality(OrchestrationEntries(r)) = 1

\* next has been invoked while a wave-A secondary is still in flight.
C15_Witness ==
  /\ Len(nextCalls) = 1
  /\ \E r \in EnabledPrimaries : transport[r] \in Settled
  /\ \E a \in WaveA : ~routes[a].primary /\ transport[a] = "InFlight"

\* C16: every non-primary route whose request was made, whether it succeeded,
\* failed or timed out, has exactly one record in ctx.routes once settled,
\* with an error on failure, and storeNonPrimaryResponse is invoked exactly
\* once for it and never before the record is there; the failure of one
\* secondary does not keep the others from being recorded and persisted.
C16_RecordedThenPersisted ==
  /\ [](\A r \in RouteIds :
         ~routes[r].primary =>
           /\ Cardinality(RouteEntries(r)) =
                (IF transport[r] \in Settled THEN 1 ELSE 0)
           /\ storeCalls[r] = Cardinality(RouteEntries(r))
           /\ transport[r] = "Failed" =>
                \A i \in RouteEntries(r) : ctx.routes[i].error # NoError)
  /\ [][\A r \in RouteIds :
          storeCalls'[r] > storeCalls[r] =>
            /\ storeCalls'[r] = storeCalls[r] + 1
            /\ {i \in 1..Len(ctx'.routes) : ctx'.routes[i].name = r} # {}]_vars

\* Two secondaries of one dispatch, one failed and one succeeded, each
\* recorded and persisted once.
C16_Witness ==
  \E r, q \in RouteIds :
    /\ ~routes[r].primary /\ transport[r] = "Failed"
    /\ ~routes[q].primary /\ transport[q] = "Succeeded"
    /\ \A i \in RouteEntries(r) : ctx.routes[i].error = "Request took longer than"
    /\ Cardinality(RouteEntries(r)) = 1 /\ storeCalls[r] = 1
    /\ Cardinality(RouteEntries(q)) = 1 /\ storeCalls[q] = 1

\* C17: route() writes the timeout of the channel onto every route that has
\* none of its own and leaves the timeout of every other route as it is; the
\* request of a route is then made with the timeout of the route if it has
\* one and with the process default otherwise.
C17_OwnTimeoutKept ==
  /\ [][(pc = "route" /\ pc' = "start" /\ channel.timeout # NullTimeout) =>
          \A r \in RouteIds :
            routes'[r].timeout =
              IF routes[r].timeout # NullTimeout
                THEN routes[r].timeout ELSE channel.timeout]_vars
  /\ [](\A r \in Started :
         ~InvalidHttpToken(received.method) =>
           sent[r].timeout =
             IF routes[r].timeout # NullTimeout
               THEN routes[r].timeout ELSE RouterTimeout)

\* C18: the headers of the request made for a route are the inbound headers
\* without 'host', and without 'authorization' exactly when the route has
\* forwardAuthHeader false, whatever the other routes of the channel are and
\* in whatever order they are processed.
C18_OutboundHeaders ==
  \A r \in Started :
    LET removed == {"host"} \cup (IF routes[r].forwardAuthHeader
                                   THEN {} ELSE {"authorization"})
    IN /\ DOMAIN sent[r].headers = DOMAIN received.header \ removed
       /\ \A n \in DOMAIN sent[r].headers : sent[r].headers[n] = received.header[n]

\* C19: the path of the request made for a route is the transformed inbound
\* path when the route has a pathTransform, the literal route.path when it
\* has no pathTransform but a path, and the inbound path when it has neither.
C19_DestinationPath ==
  \A r \in Started :
    sent[r].path =
      IF routes[r].pathTransform # <<>>
        THEN transformPath(received.path, routes[r].pathTransform)
      ELSE IF routes[r].path # <<>> THEN routes[r].path
      ELSE received.path

\* The tokens of a statusCodesCheck joined by ',' again.
RECURSIVE JoinCodes(_)
JoinCodes(codes) ==
  IF Len(codes) = 1 THEN codes[1]
  ELSE codes[1] \o <<",">> \o JoinCodes(Tail(codes))

\* The checks that hold the tokens of statusCodesCheck in some order.
Reorderings(statusCodesCheck) ==
  LET codes == Split(statusCodesCheck, ",")
      n == Len(codes)
  IN {JoinCodes([i \in 1..n |-> codes[f[i]]]) :
        f \in {g \in [1..n -> 1..n] : \A i, j \in 1..n : g[i] = g[j] => i = j}}

\* C20: the result of the gate for a status and a statusCodesCheck is the
\* same for every order of the tokens of the check: once the second loop has
\* run, a route with a check was started exactly if its check, in whatever
\* order its tokens are, matches the status of the primary response.
C20_GatingStableUnderReordering ==
  pc \in {"waveB", "finished"} =>
    \A r \in WaveB :
      routes[r].statusCodesCheck # CheckAbsent =>
        \A c \in Reorderings(routes[r].statusCodesCheck) :
          (r \in Started) = matchCodeOfPrimaryResponse(ctx.response.status, c)

\* C21: the records of the non-primary routes are in ctx.routes in the order
\* in which their transports settled, not in the order in which they were
\* started: the record of a route is appended behind the records that are
\* there when its transport settles; and every wave-A record precedes every
\* wave-B record.
C21_RecordsInSettleOrder ==
  /\ [][\A r \in RouteIds :
          (/\ ~routes[r].primary
           /\ transport[r] = "InFlight"
           /\ transport'[r] \in Settled)
          => /\ Len(ctx'.routes) = Len(ctx.routes) + 1
             /\ SubSeq(ctx'.routes, 1, Len(ctx.routes)) = ctx.routes
             /\ ctx'.routes[Len(ctx'.routes)].name = r]_vars
  /\ [](\A i, j \in 1..Len(ctx.routes) :
         (ctx.routes[i].name \in WaveA /\ ctx.routes[j].name \in WaveB) => i < j)

\* Two wave-A secondaries recorded against the order in which they were
\* started, followed by the record of a wave-B route.
C21_Witness ==
  /\ Len(ctx.routes) = 3
  /\ ctx.routes[1].name \in WaveA
  /\ ctx.routes[2].name \in WaveA
  /\ ctx.routes[1].name > ctx.routes[2].name
  /\ ctx.routes[3].name \in WaveB

\* The segments of a sed-like expression: what stands between the slashes
\* that no backslash escapes, an escaped slash read as a slash.
RECURSIVE Segments(_, _)
Segments(e, seg) ==
  IF e = <<>> THEN <<seg>>
  ELSE IF Len(e) >= 2 /\ e[1] = "\\" /\ e[2] = "/"
    THEN Segments(SubSeq(e, 3, Len(e)), Append(seg, "/"))
  ELSE IF e[1] = "/" THEN <<seg>> \o Segments(Tail(e), <<>>)
  ELSE Segments(Tail(e), Append(seg, e[1]))

\* Where from occurs in p.
Occurrences(p, from) ==
  {i \in 1..Len(p) : SubSeq(p, i, i + Len(from) - 1) = from}

\* p with its first occurrence of from, or every one, replaced by to.
RECURSIVE ReplaceOccurrences(_, _, _, _)
ReplaceOccurrences(p, from, to, every) ==
  IF Occurrences(p, from) = {} THEN p
  ELSE LET i == CHOOSE k \in Occurrences(p, from) :
                  \A l \in Occurrences(p, from) : k <= l
           rest == SubSeq(p, i + Len(from), Len(p))
       IN SubSeq(p, 1, i - 1) \o to
          \o (IF every THEN ReplaceOccurrences(rest, from, to, every) ELSE rest)

\* C22: transformPath(path, 's/<from>/<to>[/g]') replaces every occurrence
\* of <from> in the path when the fourth segment is exactly 'g' and only the
\* first one otherwise, an escaped slash in <from> or <to> standing for a
\* slash: '/a/b/a' under s/a/z/g is '/z/b/z', '/a/b' under s/\//-/g is
\* '-a-b', and every path under s/x/x is itself.
C22_TransformPath ==
  \A r \in Started :
    LET e == routes[r].pathTransform
        seg == Segments(e, <<>>)
    IN (routes[r].path = <<>> /\ Len(seg) \in {3, 4} /\ seg[2] # <<>>) =>
         /\ sent[r].path =
              ReplaceOccurrences(received.path, seg[2], seg[3],
                                 Len(seg) = 4 /\ seg[4] = <<"g">>)
         /\ (e = TransformGlobal /\ received.path = InboundPath)
              => Str(sent[r].path) = "/z/b/z"
         /\ (e = TransformSlashes /\ received.path = PathAB)
              => Str(sent[r].path) = "-a-b"
         /\ e = TransformIdentity => sent[r].path = received.path

\* The request of a route with s/\//-/g for the inbound path '/a/b' was made
\* to '-a-b'.
C22_Witness ==
  \E r \in Started :
    /\ routes[r].pathTransform = TransformSlashes
    /\ received.path = PathAB
    /\ Str(sent[r].path) = "-a-b"

\* C23: a transport failure of a non-primary route changes neither
\* ctx.response nor ctx.error and does not invoke next; on the context it
\* appends the record of the route, with its error, to ctx.routes and sets
\* ctx.autoRetry, and leaves what the primary wrote (orchestrations, mediator
\* response, primary route) as it was.
C23_SecondaryFailureFrame ==
  [][\A r \in RouteIds :
       (/\ ~routes[r].primary
        /\ transport[r] = "InFlight"
        /\ transport'[r] = "Failed")
       => /\ ctx'.response = ctx.response
          /\ ctx'.error = ctx.error
          /\ nextCalls' = nextCalls
          /\ ctx'.orchestrations = ctx.orchestrations
          /\ ctx'.mediatorResponse = ctx.mediatorResponse
          /\ ctx'.primaryRoute = ctx.primaryRoute
          /\ \E out \in Outcomes :
               /\ out.kind = "error"
               /\ ctx'.routes = Append(ctx.routes, [name |-> r, error |-> out.message])
          /\ ctx'.autoRetry]_vars

\* A finished dispatch whose primary answered 200 without a mediator error
\* and whose context has autoRetry set by a failed secondary.
C23_Witness ==
  /\ pc = "finished"
  /\ \E r \in EnabledPrimaries : transport[r] = "Succeeded"
  /\ \E r \in RouteIds : ~routes[r].primary /\ transport[r] = "Failed"
  /\ ctx.response.status = 200
  /\ ctx.error = NoError
  /\ ctx.mediatorResponse = NoJson
  /\ Len(nextCalls) = 1
  /\ ctx.autoRetry

====
